---- MODULE Spec2Model ----
(***************************************************************************)
(* Model of xray_report_viz.py: the report parser, the tree builder        *)
(* (ensure_parents), the depth filter, the Mermaid generator and main().   *)
(* Strings are sequences of one-character strings, so that split, join,    *)
(* strip, the three regular expressions and the identifier mangling are    *)
(* computed character by character as the Python code computes them.       *)
(***************************************************************************)
EXTENDS Integers, Sequences, FiniteSets, TLC

(***************************************************************************)
(* Characters                                                              *)
(***************************************************************************)
\* str.isspace() on the characters the model uses
Whitespace == {" ", "\t"}

LowerLetters == <<"a", "b", "c", "d", "e", "f", "g", "h", "i", "j", "k", "l", "m",
                  "n", "o", "p", "q", "r", "s", "t", "u", "v", "w", "x", "y", "z">>

UpperLetters == <<"A", "B", "C", "D", "E", "F", "G", "H", "I", "J", "K", "L", "M",
                  "N", "O", "P", "Q", "R", "S", "T", "U", "V", "W", "X", "Y", "Z">>

DigitChars == <<"0", "1", "2", "3", "4", "5", "6", "7", "8", "9">>

Range(f) == {f[i] : i \in DOMAIN f}

\* str.isdigit()
IsDigit(ch) == ch \in Range(DigitChars)

\* str.isalnum()
IsAlnum(ch) == ch \in Range(LowerLetters) \cup Range(UpperLetters) \cup Range(DigitChars)

\* \w of the re module: alphanumeric or underscore
IsWordChar(ch) == IsAlnum(ch) \/ ch = "_"

\* case folding done by re.IGNORECASE
LowerChar(ch) ==
    IF ch \in Range(UpperLetters)
    THEN LowerLetters[CHOOSE i \in DOMAIN UpperLetters : UpperLetters[i] = ch]
    ELSE ch

\* code-point order of the characters the model uses (ASCII)
CharOrder == <<"\t", " ", "(", ")", "-", ".">> \o DigitChars \o <<"=", ">">> \o UpperLetters
             \o <<"[", "]", "_">> \o LowerLetters \o <<"{", "}">>

Ord(ch) == CHOOSE i \in DOMAIN CharOrder : CharOrder[i] = ch

\* s < t for Python strings: lexicographic by code point
RECURSIVE StrLess(_, _)
StrLess(s, t) ==
    IF t = <<>> THEN FALSE
    ELSE IF s = <<>> THEN TRUE
    ELSE IF s[1] # t[1] THEN Ord(s[1]) < Ord(t[1])
    ELSE StrLess(Tail(s), Tail(t))

(***************************************************************************)
(* String methods                                                          *)
(***************************************************************************)
\* str.lstrip()
RECURSIVE LStrip(_)
LStrip(s) == IF s # <<>> /\ s[1] \in Whitespace THEN LStrip(Tail(s)) ELSE s

\* str.rstrip()
RECURSIVE RStrip(_)
RStrip(s) ==
    IF s # <<>> /\ s[Len(s)] \in Whitespace THEN RStrip(SubSeq(s, 1, Len(s) - 1)) ELSE s

\* str.strip()
Strip(s) == RStrip(LStrip(s))

\* s.startswith(pre)
StartsWith(s, pre) == Len(s) >= Len(pre) /\ SubSeq(s, 1, Len(pre)) = pre

\* s[n:]
Drop(s, n) == SubSeq(s, n + 1, Len(s))

\* s.split("."): always at least one segment, empty segments are kept
RECURSIVE SplitFrom(_, _, _)
SplitFrom(s, i, cur) ==
    IF i > Len(s) THEN <<cur>>
    ELSE IF s[i] = "." THEN <<cur>> \o SplitFrom(s, i + 1, <<>>)
    ELSE SplitFrom(s, i + 1, Append(cur, s[i]))

SplitDot(s) == SplitFrom(s, 1, <<>>)

\* ".".join(parts)
RECURSIVE JoinDot(_)
JoinDot(parts) ==
    IF parts = <<>> THEN <<>>
    ELSE IF Len(parts) = 1 THEN parts[1]
    ELSE parts[1] \o <<".">> \o JoinDot(Tail(parts))

\* "." in s
HasDot(s) == \E i \in DOMAIN s : s[i] = "."

\* s.rsplit(".", 1)[0] for a string that contains a dot
RSplitHead(s) ==
    LET last == CHOOSE i \in DOMAIN s : s[i] = "." /\ \A j \in DOMAIN s : s[j] = "." => j <= i
    IN  SubSeq(s, 1, last - 1)

\* str(n) for a natural number
RECURSIVE DecStr(_)
DecStr(n) == IF n < 10 THEN <<DigitChars[n + 1]>> ELSE DecStr(n \div 10) \o <<DigitChars[(n % 10) + 1]>>

\* sorted(S) for a set of strings
RECURSIVE SortedSeq(_)
SortedSeq(S) ==
    IF S = {} THEN <<>>
    ELSE LET m == CHOOSE x \in S : \A y \in S \ {x} : StrLess(x, y)
         IN  <<m>> \o SortedSeq(S \ {m})

(***************************************************************************)
(* Regular expressions                                                     *)
(***************************************************************************)
TripleEq == <<"=", "=", "=">>

NamedModulesWord == <<"n", "a", "m", "e", "d", "_", "m", "o", "d", "u", "l", "e", "s">>

LowerStr(s) == [i \in DOMAIN s |-> LowerChar(s[i])]

\* SECTION_HEADER_RE.match(s): ^===\s+\S+
SectionHeaderMatch(s) ==
    /\ StartsWith(s, TripleEq)
    /\ Len(s) > 3
    /\ s[4] \in Whitespace
    /\ LStrip(Drop(s, 3)) # <<>>

\* NAMED_MODULES_HEADER_RE.match(s): ^===\s+named_modules\b, re.IGNORECASE
NamedModulesHeaderMatch(s) ==
    /\ StartsWith(s, TripleEq)
    /\ Len(s) > 3
    /\ s[4] \in Whitespace
    /\ LET t == LStrip(Drop(s, 3))
       IN  /\ StartsWith(LowerStr(t), NamedModulesWord)
           /\ IF Len(t) = Len(NamedModulesWord) THEN TRUE
              ELSE ~IsWordChar(t[Len(NamedModulesWord) + 1])

\* the longest prefix of s without whitespace: what a leading \S+ consumes
RECURSIVE NonSpacePrefix(_)
NonSpacePrefix(s) ==
    IF s = <<>> THEN <<>>
    ELSE IF s[1] \in Whitespace THEN <<>>
    ELSE <<s[1]>> \o NonSpacePrefix(Tail(s))

\* LINE_RE.match(line): ^(?P<path>\S+)\s+(?P<cls>.+?)\s*$
LineMatch(line) ==
    LET p == NonSpacePrefix(line)
    IN  p # <<>> /\ Len(line) >= Len(p) + 2

\* m.group("path")
LinePathGroup(line) == NonSpacePrefix(line)

\* m.group("cls"): lazy .+? after a greedy \s+ ; when only whitespace follows
\* the path, \s+ gives back its last character to the group
LineClsGroup(line) ==
    LET rest == Drop(line, Len(NonSpacePrefix(line)))
    IN  IF LStrip(rest) = <<>> THEN <<rest[Len(rest)]>> ELSE RStrip(LStrip(rest))

(***************************************************************************)
(* Nodes and node mappings                                                 *)
(***************************************************************************)
\* Optional[str]: None is the empty set, a string s is {s}
None == {}

Some(s) == {s}

\* Node(path=..., cls=...)
Node(p, c) == [path |-> p, cls |-> c]

\* the empty dict
EmptyDict == [p \in {} |-> Node(p, None)]

\* d[k] = v on a dict
DictSet(d, k, v) == [p \in DOMAIN d \cup {k} |-> IF p = k THEN v ELSE d[p]]

\* path_depth
path_depth(path) == Len(SplitDot(path))

\* parts[:i - 1] in place of parts[:i]
ParentAtOffByOne(parts, i) == JoinDot(SubSeq(parts, 1, i - 1))

\* parts[:i] joined: the i-th ancestor of the path
ParentAt(parts, i) == JoinDot(SubSeq(parts, 1, i))

\* the test "if parent not in out" left out: an existing node is replaced
EnsureParentOverwrite(out, parent) == DictSet(out, parent, Node(parent, None))

\* body of the inner loop of ensure_parents: add an unlabeled node unless present
EnsureParent(out, parent) ==
    IF parent \notin DOMAIN out THEN DictSet(out, parent, Node(parent, None)) ELSE out

\* only the direct parent is added, not the whole chain of prefixes
EnsureParentsOfDirect(out, parts, i) ==
    IF Len(parts) <= 1 THEN out ELSE EnsureParent(out, ParentAt(parts, Len(parts) - 1))

\* inner loop of ensure_parents for one path, i running up to len(parts) - 1
RECURSIVE EnsureParentsOf(_, _, _)
EnsureParentsOf(out, parts, i) ==
    IF i >= Len(parts) THEN out
    ELSE EnsureParentsOf(EnsureParent(out, ParentAt(parts, i)), parts, i + 1)

\* outer loop of ensure_parents over the keys not yet visited
RECURSIVE EnsureParentsLoop(_, _)
EnsureParentsLoop(out, keys) ==
    IF keys = {} THEN out
    ELSE LET p == CHOOSE k \in keys : TRUE
         IN  EnsureParentsLoop(EnsureParentsOf(out, SplitDot(p), 1), keys \ {p})

ensure_parents(nodes) == EnsureParentsLoop(nodes, DOMAIN nodes)

\* "<" in place of "<="
DepthBelow(nodes, md) == [p \in {q \in DOMAIN nodes : path_depth(q) < md} |-> nodes[p]]

\* {p: n for p, n in nodes.items() if path_depth(p) <= max_depth}
DepthAtMost(nodes, md) == [p \in {q \in DOMAIN nodes : path_depth(q) <= md} |-> nodes[p]]

filter_by_max_depth(nodes, md) == DepthAtMost(ensure_parents(DepthAtMost(nodes, md)), md)

\* build_tree: parent -> sorted list of the children present in nodes
build_tree(nodes) ==
    LET linked  == {p \in DOMAIN nodes : HasDot(p) /\ RSplitHead(p) \in DOMAIN nodes}
        parents == {RSplitHead(p) : p \in linked}
    IN  [par \in parents |-> SortedSeq({p \in linked : RSplitHead(p) = par})]

(***************************************************************************)
(* Labels and identifiers                                                  *)
(***************************************************************************)
Brackets == {"(", ")", "[", "]", "{", "}"}

\* sanitize_label: the six bracket characters are removed
RECURSIVE sanitize_label(_)
sanitize_label(s) ==
    IF s = <<>> THEN <<>>
    ELSE IF s[1] \in Brackets THEN sanitize_label(Tail(s))
    ELSE <<s[1]>> \o sanitize_label(Tail(s))

\* node_label: "path cls" when cls is a non-empty string, else the path
node_label(node) ==
    IF node.cls # None /\ node.cls # Some(<<>>)
    THEN sanitize_label(node.path \o <<" ">> \o (CHOOSE c \in node.cls : TRUE))
    ELSE sanitize_label(node.path)

\* the character loop of mermaid_id_for_path
IdChars(path) == [i \in DOMAIN path |-> IF IsAlnum(path[i]) \/ path[i] = "_" THEN path[i] ELSE "_"]

DigitPrefix == <<"n", "_">>

mermaid_id_for_path(path) ==
    LET out == IdChars(path)
    IN  IF out # <<>> /\ IsDigit(out[1]) THEN DigitPrefix \o out ELSE out

(***************************************************************************)
(* Diagram text: a sequence of lines, each a string                        *)
(***************************************************************************)
root_id == <<"M", "o", "d", "e", "l">>

Arrow == <<" ", "-", "-", ">", " ">>

Indent2 == <<" ", " ">>

Indent4 == <<" ", " ", " ", " ">>

FlowchartLine == <<"f", "l", "o", "w", "c", "h", "a", "r", "t", " ", "L", "R">>

SubgraphWord == <<"s", "u", "b", "g", "r", "a", "p", "h", " ">>

DirectionLine == Indent4 \o <<"d", "i", "r", "e", "c", "t", "i", "o", "n", " ", "T", "B">>

EndLine == Indent2 \o <<"e", "n", "d">>

LeafstackWord == <<"l", "e", "a", "f", "s", "t", "a", "c", "k", "_">>

\* f"  {nid}[{lbl}]"
DeclLine(nid, lbl) == Indent2 \o nid \o <<"[">> \o lbl \o <<"]">>

\* f"  {a} --> {b}"
EdgeLine(a, b) == Indent2 \o a \o Arrow \o b

\* f"    {a} --> {b}"
ChainLine(a, b) == Indent4 \o a \o Arrow \o b

\* f"  subgraph {stack_id}"
SubgraphLine(stack_id) == Indent2 \o SubgraphWord \o stack_id

\* f"leafstack_{mermaid_id_for_path(parent)}_{stack_counter}"
StackId(parent, stack_counter) ==
    LeafstackWord \o mermaid_id_for_path(parent) \o <<"_">> \o DecStr(stack_counter)

\* the parent connected to the last leaf of the stack instead of the first
StackEntryLast(leaf_children) == leaf_children[Len(leaf_children)]

\* the edge that connects the parent to the stack: to leaf_children[0]
StackEntry(leaf_children) == leaf_children[1]

\* emit_leaf_stack: the lines appended for a non-empty list of leaf children
emit_leaf_stack(parent, leaf_children, stack_id) ==
    IF leaf_children = <<>> THEN <<>>
    ELSE LET sorted == SortedSeq(Range(leaf_children))
         IN  <<SubgraphLine(stack_id), DirectionLine>>
             \o [i \in 1..(Len(sorted) - 1) |->
                    ChainLine(mermaid_id_for_path(sorted[i]), mermaid_id_for_path(sorted[i + 1]))]
             \o <<EndLine>>
             \o <<EdgeLine(mermaid_id_for_path(parent), mermaid_id_for_path(StackEntry(sorted)))>>

\* sorted(nodes.items(), key=lambda x: (path_depth(x[0]), x[0])), the paths only
DeclLess(p, q) ==
    \/ path_depth(p) < path_depth(q)
    \/ path_depth(p) = path_depth(q) /\ StrLess(p, q)

RECURSIVE DeclOrder(_)
DeclOrder(S) ==
    IF S = {} THEN <<>>
    ELSE LET m == CHOOSE x \in S : \A y \in S \ {x} : DeclLess(x, y)
         IN  <<m>> \o DeclOrder(S \ {m})

\* [c for c in children if path_depth(c) == max_depth]
LeafChildren(children, md) == SelectSeq(children, LAMBDA c : path_depth(c) = md)

\* [c for c in children if path_depth(c) < max_depth]
NonLeafChildren(children, md) == SelectSeq(children, LAMBDA c : path_depth(c) < md)

\* the loop over sorted(tree.keys()), from position k, with the stack counter
RECURSIVE EmitParents(_, _, _, _, _)
EmitParents(tree, parents, k, md, stack_counter) ==
    IF k > Len(parents) THEN <<>>
    ELSE LET parent   == parents[k]
             leaf     == LeafChildren(tree[parent], md)
             nonleaf  == NonLeafChildren(tree[parent], md)
             fanout   == [i \in DOMAIN nonleaf |->
                             EdgeLine(mermaid_id_for_path(parent), mermaid_id_for_path(nonleaf[i]))]
             counter2 == IF leaf # <<>> THEN stack_counter + 1 ELSE stack_counter
         IN  fanout
             \o emit_leaf_stack(parent, leaf, StackId(parent, counter2))
             \o EmitParents(tree, parents, k + 1, md, counter2)

\* sorted([p for p in nodes.keys() if "." not in p])
TopLevel(nodes) == SortedSeq({p \in DOMAIN nodes : ~HasDot(p)})

generate_mermaid(nodes, md, root_label) ==
    LET order == DeclOrder(DOMAIN nodes)
        top   == TopLevel(nodes)
        tree  == build_tree(nodes)
    IN  <<FlowchartLine, DeclLine(root_id, sanitize_label(root_label))>>
        \o [i \in DOMAIN order |->
               DeclLine(mermaid_id_for_path(order[i]), node_label(nodes[order[i]]))]
        \o [i \in DOMAIN top |-> EdgeLine(root_id, mermaid_id_for_path(top[i]))]
        \o EmitParents(tree, SortedSeq(DOMAIN tree), 1, md, 0)

(***************************************************************************)
(* Inputs                                                                  *)
(***************************************************************************)
\* longest report made of free combinations of the lines below
MaxLines == 3

\* largest --max-depth tried (0 is tried as well)
MaxDepth == 3

\* "=== named_modules"
HeaderLine == <<"=", "=", "=", " ", "n", "a", "m", "e", "d", "_", "m", "o", "d", "u", "l", "e", "s">>

\* "=== named_modules.x"
HeaderDotLine == <<"=", "=", "=", " ", "n", "a", "m", "e", "d", "_", "m", "o", "d", "u", "l", "e", "s", ".", "x">>

\* " === B"
OtherSectionLine == <<" ", "=", "=", "=", " ", "B">>

\* " "
BlankLine == <<" ">>

\* "a.b L"
DataLineAB == <<"a", ".", "b", " ", "L">>

\* "a.b  M "
DataLineABAgain == <<"a", ".", "b", " ", " ", "M", " ">>

\* "a_b.c L"
DataLineAuBC == <<"a", "_", "b", ".", "c", " ", "L">>

\* "a.b.c L"
DataLineABC == <<"a", ".", "b", ".", "c", " ", "L">>

\* "a"
NoClassLine == <<"a">>

LineSet == {HeaderLine, HeaderDotLine, OtherSectionLine, DataLineAB, DataLineABAgain,
           DataLineAuBC, DataLineABC, NoClassLine}

\* "visual.blocks.0.attn.qkv    Linear"
FixtureLine1 == <<"v", "i", "s", "u", "a", "l", ".", "b", "l", "o", "c", "k", "s", ".", "0", ".", "a", "t", "t", "n", ".", "q", "k", "v", " ", " ", " ", " ", "L", "i", "n", "e", "a", "r">>

\* "visual.blocks.0.attn.proj   Linear"
FixtureLine2 == <<"v", "i", "s", "u", "a", "l", ".", "b", "l", "o", "c", "k", "s", ".", "0", ".", "a", "t", "t", "n", ".", "p", "r", "o", "j", " ", " ", " ", "L", "i", "n", "e", "a", "r">>

\* "language.embed_tokens       Embedding"
FixtureLine3 == <<"l", "a", "n", "g", "u", "a", "g", "e", ".", "e", "m", "b", "e", "d", "_", "t", "o", "k", "e", "n", "s", " ", " ", " ", " ", " ", " ", " ", "E", "m", "b", "e", "d", "d", "i", "n", "g">>

\* the report of the regression fixture
FixtureReport == <<HeaderLine, FixtureLine1, FixtureLine2, FixtureLine3>>

\* "m.x (L)"
RichLine1 == <<"m", ".", "x", " ", "(", "L", ")">>

\* "m.y L"
RichLine2 == <<"m", ".", "y", " ", "L">>

\* "m.z L"
RichLine3 == <<"m", ".", "z", " ", "L">>

\* "0.k L"
RichLine4 == <<"0", ".", "k", " ", "L">>

\* "m.x.e L"
RichLine5 == <<"m", ".", "x", ".", "e", " ", "L">>

\* "m.x.d L"
RichLine6 == <<"m", ".", "x", ".", "d", " ", "L">>

\* a report with three siblings, two of their children, a bracketed class
\* name and a path that starts with a digit
RichReport == <<HeaderLine, RichLine3, RichLine5, RichLine1, RichLine4, RichLine6, RichLine2>>

\* a report with a data line before the header, a path listed twice, a blank
\* line, the header of the next section and a data line after it
PhaseReport == <<DataLineABC, HeaderLine, DataLineAB, NoClassLine, BlankLine, DataLineABAgain,
                 OtherSectionLine, DataLineAuBC>>

Reports ==
    UNION {[1..n -> LineSet] : n \in 0..MaxLines} \cup {FixtureReport, RichReport, PhaseReport}

\* "Qwen3VLModel": the default of --root-label
root_label == <<"Q", "w", "e", "n", "3", "V", "L", "M", "o", "d", "e", "l">>

\* "out.md": the value of --out
OutPath == <<"o", "u", "t", ".", "m", "d">>

\* "Wrote: "
WrotePrefix == <<"W", "r", "o", "t", "e", ":", " ">>

\* the grave accent character, which a TLA+ string cannot hold
Backtick == "GRAVE"

\* the opening fence line written before the diagram
FenceOpen == <<Backtick, Backtick, Backtick, "m", "e", "r", "m", "a", "i", "d">>

\* the closing fence line
FenceClose == <<Backtick, Backtick, Backtick>>

(***************************************************************************)
(* State                                                                   *)
(***************************************************************************)
\* report_text.splitlines()
VARIABLE lines

\* args.max_depth
VARIABLE max_depth

\* position of the run
VARIABLE pc

\* position of the for loop of parse_named_modules in lines
VARIABLE idx

\* in_named of parse_named_modules
VARIABLE in_named

\* nodes of parse_named_modules, returned into explicit of main
VARIABLE explicit

\* all_nodes of main
VARIABLE all_nodes

\* nodes of main
VARIABLE nodes

\* mermaid of main, as its lines
VARIABLE mermaid

\* the file args.out: whether it was opened, and its lines
VARIABLE out_file

\* lines printed
VARIABLE stdout

\* argument of a direct call of ensure_parents / filter_by_max_depth
VARIABLE fn_in

\* result of the first call
VARIABLE fn_once

\* result of the call on that result
VARIABLE fn_twice

vars == <<lines, max_depth, pc, idx, in_named, explicit, all_nodes, nodes, mermaid,
          out_file, stdout, fn_in, fn_once, fn_twice>>

fn_vars == <<fn_in, fn_once, fn_twice>>

main_vars == <<all_nodes, nodes, mermaid, out_file, stdout>>

NotOpened == [opened |-> FALSE, content |-> <<>>]

Init ==
    /\ lines \in Reports
    /\ max_depth \in 0..MaxDepth
    /\ pc = "parse"
    /\ idx = 1
    /\ in_named = FALSE
    /\ explicit = EmptyDict
    /\ all_nodes = EmptyDict
    /\ nodes = EmptyDict
    /\ mermaid = <<>>
    /\ out_file = NotOpened
    /\ stdout = <<>>
    /\ fn_in = EmptyDict
    /\ fn_once = EmptyDict
    /\ fn_twice = EmptyDict

(***************************************************************************)
(* parse_named_modules: one action per iteration of the for loop           *)
(***************************************************************************)
InLoop == pc = "parse" /\ idx <= Len(lines)

\* the record stored for a matching line
LineNode(line) == Node(Strip(LinePathGroup(line)), Some(Strip(LineClsGroup(line))))

\* the first record of a path is kept instead of the last
StoreLineKeepFirst(d, line) ==
    IF LineNode(line).path \in DOMAIN d THEN d ELSE DictSet(d, LineNode(line).path, LineNode(line))

\* nodes[path] = Node(path=path, cls=cls)
StoreLine(d, line) == DictSet(d, LineNode(line).path, LineNode(line))

\* not in_named, no header on this line: continue
ParseSkipPreamble ==
    /\ InLoop
    /\ ~in_named
    /\ ~NamedModulesHeaderMatch(Strip(lines[idx]))
    /\ idx' = idx + 1
    /\ UNCHANGED <<lines, max_depth, pc, in_named, explicit, main_vars, fn_vars>>

\* not in_named, the header matches: in_named = True, continue
ParseEnterSection ==
    /\ InLoop
    /\ ~in_named
    /\ NamedModulesHeaderMatch(Strip(lines[idx]))
    /\ in_named' = TRUE
    /\ idx' = idx + 1
    /\ UNCHANGED <<lines, max_depth, pc, explicit, main_vars, fn_vars>>

\* the condition of the break
EndsSection(line) == SectionHeaderMatch(Strip(line)) /\ ~NamedModulesHeaderMatch(Strip(line))

\* in the section, next === header: break, and the function returns nodes
ParseBreak ==
    /\ InLoop
    /\ in_named
    /\ EndsSection(lines[idx])
    /\ pc' = "parsed"
    /\ UNCHANGED <<lines, max_depth, idx, in_named, explicit, main_vars, fn_vars>>

\* in the section, blank line: continue
ParseSkipBlank ==
    /\ InLoop
    /\ in_named
    /\ ~EndsSection(lines[idx])
    /\ Strip(lines[idx]) = <<>>
    /\ idx' = idx + 1
    /\ UNCHANGED <<lines, max_depth, pc, in_named, explicit, main_vars, fn_vars>>

\* in the section, LINE_RE does not match: continue
ParseSkipNoMatch ==
    /\ InLoop
    /\ in_named
    /\ ~EndsSection(lines[idx])
    /\ Strip(lines[idx]) # <<>>
    /\ ~LineMatch(lines[idx])
    /\ idx' = idx + 1
    /\ UNCHANGED <<lines, max_depth, pc, in_named, explicit, main_vars, fn_vars>>

\* in the section, LINE_RE matches: the record is stored under its path
ParseRecord ==
    /\ InLoop
    /\ in_named
    /\ ~EndsSection(lines[idx])
    /\ Strip(lines[idx]) # <<>>
    /\ LineMatch(lines[idx])
    /\ explicit' = StoreLine(explicit, lines[idx])
    /\ idx' = idx + 1
    /\ UNCHANGED <<lines, max_depth, pc, in_named, main_vars, fn_vars>>

\* the loop is exhausted: the function returns nodes
ParseEnd ==
    /\ pc = "parse"
    /\ idx > Len(lines)
    /\ pc' = "parsed"
    /\ UNCHANGED <<lines, max_depth, idx, in_named, explicit, main_vars, fn_vars>>

(***************************************************************************)
(* main                                                                    *)
(***************************************************************************)
\* the test of emptiness left out: the run always goes on
IsEmptyResultNever(d) == FALSE

\* the test of "if not explicit"
IsEmptyResult(d) == DOMAIN d = {}

\* if not explicit: raise SystemExit(...)
MainFatal ==
    /\ pc = "parsed"
    /\ IsEmptyResult(explicit)
    /\ pc' = "fatal"
    /\ UNCHANGED <<lines, max_depth, idx, in_named, explicit, main_vars, fn_vars>>

\* all_nodes = ensure_parents(explicit)
MainEnsureParents ==
    /\ pc = "parsed"
    /\ ~IsEmptyResult(explicit)
    /\ all_nodes' = ensure_parents(explicit)
    /\ pc' = "ensured"
    /\ UNCHANGED <<lines, max_depth, idx, in_named, explicit, nodes, mermaid, out_file,
                   stdout, fn_vars>>

\* nodes = filter_by_max_depth(all_nodes, args.max_depth)
MainFilter ==
    /\ pc = "ensured"
    /\ nodes' = filter_by_max_depth(all_nodes, max_depth)
    /\ pc' = "filtered"
    /\ UNCHANGED <<lines, max_depth, idx, in_named, explicit, all_nodes, mermaid, out_file,
                   stdout, fn_vars>>

\* mermaid = generate_mermaid(nodes, max_depth=..., root_label=...)
MainGenerate ==
    /\ pc = "filtered"
    /\ mermaid' = generate_mermaid(nodes, max_depth, root_label)
    /\ pc' = "generated"
    /\ UNCHANGED <<lines, max_depth, idx, in_named, explicit, all_nodes, nodes, out_file,
                   stdout, fn_vars>>

\* with open(args.out, "w"): the fence, the diagram, the fence
MainWrite ==
    /\ pc = "generated"
    /\ out_file' = [opened |-> TRUE, content |-> <<FenceOpen>> \o mermaid \o <<FenceClose>>]
    /\ pc' = "written"
    /\ UNCHANGED <<lines, max_depth, idx, in_named, explicit, all_nodes, nodes, mermaid,
                   stdout, fn_vars>>

\* print(f"Wrote: {args.out}")
MainPrint ==
    /\ pc = "written"
    /\ stdout' = Append(stdout, WrotePrefix \o OutPath)
    /\ pc' = "done"
    /\ UNCHANGED <<lines, max_depth, idx, in_named, explicit, all_nodes, nodes, mermaid,
                   out_file, fn_vars>>

Next ==
    \/ ParseSkipPreamble
    \/ ParseEnterSection
    \/ ParseBreak
    \/ ParseSkipBlank
    \/ ParseSkipNoMatch
    \/ ParseRecord
    \/ ParseEnd
    \/ MainFatal
    \/ MainEnsureParents
    \/ MainFilter
    \/ MainGenerate
    \/ MainWrite
    \/ MainPrint

Spec == Init /\ [][Next]_vars

(***************************************************************************)
(* Direct calls of ensure_parents and filter_by_max_depth on arbitrary     *)
(* node mappings (labeled or not, closed under parents or not)             *)
(***************************************************************************)
\* largest node mapping tried
MaxNodes == 3

\* "", "a", "a.b", "a.b.c", "a_b", ".a", "a..b", "b.c"
PathSet == {<<>>, <<"a">>, <<"a", ".", "b">>, <<"a", ".", "b", ".", "c">>, <<"a", "_", "b">>,
            <<".", "a">>, <<"a", ".", ".", "b">>, <<"b", ".", "c">>}

\* cls of a node: None, or the class name "L"
ClsSet == {None, Some(<<"L">>)}

NodeMaps ==
    UNION {{[p \in S |-> Node(p, c[p])] : c \in [S -> ClsSet]} :
              S \in {T \in SUBSET PathSet : Cardinality(T) <= MaxNodes}}

InitFn ==
    /\ fn_in \in NodeMaps
    /\ max_depth \in 0..MaxDepth
    /\ pc = "call"
    /\ fn_once = EmptyDict
    /\ fn_twice = EmptyDict
    /\ lines = <<>>
    /\ idx = 1
    /\ in_named = FALSE
    /\ explicit = EmptyDict
    /\ all_nodes = EmptyDict
    /\ nodes = EmptyDict
    /\ mermaid = <<>>
    /\ out_file = NotOpened
    /\ stdout = <<>>

parse_vars == <<lines, max_depth, idx, in_named, explicit>>

\* ensure_parents(N)
FnEnsure ==
    /\ pc = "call"
    /\ fn_once' = ensure_parents(fn_in)
    /\ pc' = "ensured"
    /\ UNCHANGED <<fn_in, fn_twice, parse_vars, main_vars>>

\* ensure_parents(ensure_parents(N))
FnEnsureAgain ==
    /\ pc = "ensured"
    /\ fn_twice' = ensure_parents(fn_once)
    /\ pc' = "ensured_twice"
    /\ UNCHANGED <<fn_in, fn_once, parse_vars, main_vars>>

\* filter_by_max_depth(ensure_parents(N), max_depth)
FnFilterEnsured ==
    /\ pc = "ensured"
    /\ fn_twice' = filter_by_max_depth(fn_once, max_depth)
    /\ pc' = "ensured_filtered"
    /\ UNCHANGED <<fn_in, fn_once, parse_vars, main_vars>>

\* filter_by_max_depth(N, max_depth)
FnFilter ==
    /\ pc = "call"
    /\ fn_once' = filter_by_max_depth(fn_in, max_depth)
    /\ pc' = "filtered"
    /\ UNCHANGED <<fn_in, fn_twice, parse_vars, main_vars>>

\* filter_by_max_depth(filter_by_max_depth(N, max_depth), max_depth)
FnFilterAgain ==
    /\ pc = "filtered"
    /\ fn_twice' = filter_by_max_depth(fn_once, max_depth)
    /\ pc' = "filtered_twice"
    /\ UNCHANGED <<fn_in, fn_once, parse_vars, main_vars>>

NextFn ==
    \/ FnEnsure
    \/ FnEnsureAgain
    \/ FnFilterEnsured
    \/ FnFilter
    \/ FnFilterAgain

SpecFn == InitFn /\ [][NextFn]_vars

(***************************************************************************)
(* Vocabulary of the properties, defined on the strings themselves         *)
(***************************************************************************)
\* positions of the dots of a path
DotPositions(p) == {i \in DOMAIN p : p[i] = "."}

\* depth: number of dot-separated segments
SegmentCount(p) == Cardinality(DotPositions(p)) + 1

\* the path with its last dot-segment removed (for a path of depth > 1)
LastSegmentRemoved(p) ==
    LET k == CHOOSE i \in DotPositions(p) : \A j \in DotPositions(p) : j <= i
    IN  SubSeq(p, 1, k - 1)

\* every proper prefix of the path that ends just before a dot
Ancestors(p) == {SubSeq(p, 1, k - 1) : k \in DotPositions(p)}

\* the mapping contains the parent of each of its paths of depth > 1
ClosedUnderParent(d) ==
    \A p \in DOMAIN d : SegmentCount(p) > 1 => LastSegmentRemoved(p) \in DOMAIN d

\* the entries of d of depth <= md
ShallowPart(d, md) == [p \in {q \in DOMAIN d : SegmentCount(q) <= md} |-> d[p]]

(***************************************************************************)
(* Properties of ensure_parents and filter_by_max_depth                    *)
(***************************************************************************)
\* C1: ensure_parents(N) contains the parent path of each of its paths of
\* depth > 1, and so does filter_by_max_depth(ensure_parents(N), max_depth)
\* for every max_depth >= 1: filtering strands no node.
C1_Closure ==
    /\ pc \in {"ensured", "ensured_twice", "ensured_filtered"} => ClosedUnderParent(fn_once)
    /\ (pc = "ensured_filtered" /\ max_depth >= 1) => ClosedUnderParent(fn_twice)

\* a mapping that is not closed was completed, and the filter then removed a
\* deep node while keeping nodes that have parents
C1_Witness ==
    /\ pc = "ensured_filtered"
    /\ max_depth >= 1
    /\ ~ClosedUnderParent(fn_in)
    /\ DOMAIN fn_twice # DOMAIN fn_once
    /\ \E p \in DOMAIN fn_twice : SegmentCount(p) > 1

\* C2: for max_depth >= 1, filter_by_max_depth(N, max_depth) holds exactly the
\* entries of N of depth <= max_depth, unchanged, plus unlabeled ancestors of
\* those entries, all of depth <= max_depth; and on a mapping closed under
\* parents it is the single-pass filter of that mapping.
C2_FilterExact ==
    /\ (pc \in {"filtered", "filtered_twice"} /\ max_depth >= 1) =>
          LET kept == ShallowPart(fn_in, max_depth)
          IN  /\ DOMAIN fn_once = DOMAIN kept \cup UNION {Ancestors(p) : p \in DOMAIN kept}
              /\ \A p \in DOMAIN kept : fn_once[p] = fn_in[p]
              /\ \A p \in DOMAIN fn_once \ DOMAIN kept : fn_once[p] = Node(p, None)
              /\ \A p \in DOMAIN fn_once : SegmentCount(p) <= max_depth
    /\ (pc = "ensured_filtered" /\ max_depth >= 1) => fn_twice = ShallowPart(fn_once, max_depth)

\* the filter dropped an entry, kept another one and synthesized an ancestor
C2_Witness ==
    /\ pc = "filtered"
    /\ max_depth >= 1
    /\ \E p \in DOMAIN fn_in : p \notin DOMAIN fn_once
    /\ \E p \in DOMAIN fn_in : p \in DOMAIN fn_once /\ SegmentCount(p) = max_depth
    /\ \E p \in DOMAIN fn_once : p \notin DOMAIN fn_in

\* C4: for max_depth >= 1, filtering the filtered mapping again at the same
\* max_depth returns the same paths with the same records.
C4_FilterIdempotent ==
    (pc = "filtered_twice" /\ max_depth >= 1) => fn_twice = fn_once

\* the first filtering both removed and added nodes, and was applied again
C4_Witness ==
    /\ pc = "filtered_twice"
    /\ max_depth >= 1
    /\ \E p \in DOMAIN fn_in : p \notin DOMAIN fn_once
    /\ \E p \in DOMAIN fn_once : p \notin DOMAIN fn_in

\* C5: ensure_parents applied to its own result returns that result, and
\* every path of N keeps the record it has in N.
C5_EnsureParentsIdempotent ==
    /\ pc = "ensured_twice" => fn_twice = fn_once
    /\ pc \in {"ensured", "ensured_twice", "ensured_filtered"} =>
          \A p \in DOMAIN fn_in : fn_once[p] = fn_in[p]

\* a labeled node is a proper prefix of another path of N, ancestors were
\* added, and ensure_parents was applied twice
C5_Witness ==
    /\ pc = "ensured_twice"
    /\ \E p, q \in DOMAIN fn_in : p \in Ancestors(q) /\ fn_in[p].cls # None
    /\ DOMAIN fn_once # DOMAIN fn_in

(***************************************************************************)
(* Properties of the parser and of main                                    *)
(***************************************************************************)
\* positions, among the first n lines, of the lines the code takes as the
\* named_modules header
HeaderPositions(n) == {i \in 1..n : NamedModulesHeaderMatch(Strip(lines[i]))}

\* the least element of a non-empty set of positions
First(S) == CHOOSE i \in S : \A j \in S : i <= j

\* positions of the data lines of the section within the first n lines: after
\* the first header, before the first later line that ends the section
SectionLines(n) ==
    LET heads == HeaderPositions(n)
    IN  IF heads = {} THEN {}
        ELSE LET ends == {i \in (First(heads) + 1)..n : EndsSection(lines[i])}
                 last == IF ends = {} THEN n ELSE First(ends) - 1
             IN  {i \in (First(heads) + 1)..last : Strip(lines[i]) # <<>> /\ LineMatch(lines[i])}

\* the run is past the test of the parse result and did not stop there
Proceeded == pc \in {"ensured", "filtered", "generated", "written", "done"}

\* a line of the file that declares a node: "  id[label]"
IsDeclaration(l) ==
    /\ Len(l) >= 4
    /\ SubSeq(l, 1, 2) = Indent2
    /\ l[Len(l)] = "]"
    /\ \E k \in 3..(Len(l) - 1) : l[k] = "["

\* C3: when the report has no named_modules header or its section yields no
\* record, the run ends in the fatal error, with the output file never opened
\* and nothing printed; and a written file (max_depth >= 1) declares at least
\* one module node after the declaration of the root.
C3_FatalOnEmpty ==
    /\ (Proceeded \/ out_file # NotOpened \/ stdout # <<>>) => SectionLines(Len(lines)) # {}
    /\ pc = "fatal" => (SectionLines(Len(lines)) = {} /\ out_file = NotOpened /\ stdout = <<>>)
    /\ (out_file.opened /\ max_depth >= 1) =>
          \E i \in 4..Len(out_file.content) : IsDeclaration(out_file.content[i])

\* the header was found, its section held only lines that give no record,
\* and the run stopped with the fatal error
C3_Witness ==
    /\ pc = "fatal"
    /\ in_named
    /\ Len(lines) >= 2
    /\ out_file = NotOpened

\* the record the claim expects for a path: that of the last of the given
\* lines that carries the path
LastRecord(S, path) ==
    LET i == CHOOSE k \in S : /\ Strip(NonSpacePrefix(lines[k])) = path
                              /\ \A j \in S : Strip(NonSpacePrefix(lines[j])) = path => j <= k
        rest == Drop(lines[i], Len(NonSpacePrefix(lines[i])))
    IN  Node(path, Some(Strip(rest)))

RecordsOf(S) ==
    [path \in {Strip(NonSpacePrefix(lines[i])) : i \in S} |-> LastRecord(S, path)]

\* number of lines the parser has consumed
Scanned == IF pc = "parse" THEN idx - 1 ELSE Len(lines)

\* C6 (amended): the parser is a three-phase machine. Before the first line
\* that starts (after stripping) with ===, whitespace and the word
\* named_modules (any case, ended by a word boundary) no record is made; the
\* section ends at the first later line that starts with ===, whitespace and
\* a token that is not such a header, and nothing at or after it is read; in
\* between every non-blank line <path><whitespace><class name> gives a
\* record, other lines are skipped, and the last line of a path wins.
C6_ParserPhases ==
    /\ pc \in {"parse", "parsed"} => explicit = RecordsOf(SectionLines(Scanned))
    /\ pc = "parse" => (in_named <=> HeaderPositions(Scanned) # {})

\* a data line before the header was passed over, the section was entered, a
\* path was recorded twice with different class names, and the parser
\* stopped at the header of the next section with a data line still unread
C6_Witness ==
    /\ pc = "parsed"
    /\ idx < Len(lines)
    /\ LineMatch(lines[idx + 1])
    /\ LineMatch(lines[1])
    /\ 1 \notin SectionLines(Len(lines))
    /\ \E i, j \in SectionLines(Len(lines)) :
          /\ i < j
          /\ NonSpacePrefix(lines[i]) = NonSpacePrefix(lines[j])
          /\ lines[i] # lines[j]

\* the token after "===" and whitespace, lower-cased
HeaderToken(l) == LowerStr(NonSpacePrefix(LStrip(Drop(Strip(l), 3))))

\* a line "=== <token>", as the claim reads it
IsHeaderLine(l) ==
    /\ StartsWith(Strip(l), TripleEq)
    /\ Len(Strip(l)) > 3
    /\ Strip(l)[4] \in Whitespace
    /\ HeaderToken(l) # <<>>

\* positions of the lines whose token is named_modules
TokenHeaderPositions == {i \in 1..Len(lines) : IsHeaderLine(lines[i]) /\ HeaderToken(lines[i]) = NamedModulesWord}

\* the data lines of the section when it ends at the first header line whose
\* token is other than named_modules
TokenSectionLines ==
    IF TokenHeaderPositions = {} THEN {}
    ELSE LET first == First(TokenHeaderPositions)
             ends  == {i \in (first + 1)..Len(lines) :
                          IsHeaderLine(lines[i]) /\ HeaderToken(lines[i]) # NamedModulesWord}
             last  == IF ends = {} THEN Len(lines) ELSE First(ends) - 1
         IN  {i \in (first + 1)..last : Strip(lines[i]) # <<>> /\ LineMatch(lines[i])}

\* C6 as stated: the section starts at the first header whose token is
\* named_modules and ends at the first later header with another token
C6_AsStated == pc = "parsed" => explicit = RecordsOf(TokenSectionLines)

(***************************************************************************)
(* Properties of the diagram                                               *)
(***************************************************************************)
\* the diagram has been generated
Generated == pc \in {"generated", "written", "done"}

\* number of lines of the diagram equal to l
Occurrences(l) == Cardinality({i \in DOMAIN mermaid : mermaid[i] = l})

\* children of a parent in the node set
ChildrenOf(par) ==
    {c \in DOMAIN nodes : SegmentCount(c) > 1 /\ LastSegmentRemoved(c) = par}

\* the leaf children of a parent, in lexicographic order
LeafStackOf(par) == SortedSeq({c \in ChildrenOf(par) : SegmentCount(c) = max_depth})

\* "  subgraph leafstack_<id of the parent>_"
StackHeaderOf(par) == Indent2 \o SubgraphWord \o LeafstackWord \o mermaid_id_for_path(par) \o <<"_">>

\* lines that open the subgraph of a parent, each followed by "direction TB"
StackHeaders(par) ==
    {i \in DOMAIN mermaid :
        /\ StartsWith(mermaid[i], StackHeaderOf(par))
        /\ \A k \in (Len(StackHeaderOf(par)) + 1)..Len(mermaid[i]) : IsDigit(mermaid[i][k])}

\* C7 as stated: for every parent with children, each child of depth <
\* max_depth has exactly one edge parent --> child; the children of depth =
\* max_depth are in one subgraph with direction TB, chained leaf to next leaf
\* in lexicographic order, and the parent has exactly one edge into them, to
\* the first leaf.
C7_LayoutRule ==
    (Generated /\ max_depth >= 1) =>
        \A par \in DOMAIN nodes :
            LET stack == LeafStackOf(par)
                pid   == mermaid_id_for_path(par)
            IN  /\ \A c \in ChildrenOf(par) :
                       SegmentCount(c) < max_depth =>
                           Occurrences(EdgeLine(pid, mermaid_id_for_path(c))) = 1
                /\ stack # <<>> =>
                       /\ Cardinality(StackHeaders(par)) = 1
                       /\ \A i \in StackHeaders(par) : mermaid[i + 1] = DirectionLine
                       /\ \A k \in 1..(Len(stack) - 1) :
                              Occurrences(ChainLine(mermaid_id_for_path(stack[k]),
                                                    mermaid_id_for_path(stack[k + 1]))) = 1
                       /\ Occurrences(EdgeLine(pid, mermaid_id_for_path(stack[1]))) = 1
                       /\ \A k \in 2..Len(stack) :
                              Occurrences(EdgeLine(pid, mermaid_id_for_path(stack[k]))) = 0

\* "visual", "visual.blocks", "visual.blocks.0", "visual.blocks.0.attn", "language"
PathVisual == <<"v", "i", "s", "u", "a", "l">>

PathVisualBlocks == <<"v", "i", "s", "u", "a", "l", ".", "b", "l", "o", "c", "k", "s">>

PathVisualBlocks0 == <<"v", "i", "s", "u", "a", "l", ".", "b", "l", "o", "c", "k", "s", ".", "0">>

PathVisualBlocks0Attn == <<"v", "i", "s", "u", "a", "l", ".", "b", "l", "o", "c", "k", "s", ".", "0", ".", "a", "t", "t", "n">>

PathLanguage == <<"l", "a", "n", "g", "u", "a", "g", "e">>

\* "visual.blocks.0.attn.qkv", "visual.blocks.0.attn.proj", "language.embed_tokens"
PathQkv == PathVisualBlocks0Attn \o <<".", "q", "k", "v">>

PathProj == PathVisualBlocks0Attn \o <<".", "p", "r", "o", "j">>

PathEmbedTokens == PathLanguage \o <<".", "e", "m", "b", "e", "d", "_", "t", "o", "k", "e", "n", "s">>

ClsLinear == <<"L", "i", "n", "e", "a", "r">>

ClsEmbedding == <<"E", "m", "b", "e", "d", "d", "i", "n", "g">>

\* the tree builder has run on the fixture report
FixtureBuilt == lines = FixtureReport /\ Proceeded

\* the three records of the fixture
FixtureExplicit ==
    /\ DOMAIN explicit = {PathQkv, PathProj, PathEmbedTokens}
    /\ explicit[PathQkv] = Node(PathQkv, Some(ClsLinear))
    /\ explicit[PathProj] = Node(PathProj, Some(ClsLinear))
    /\ explicit[PathEmbedTokens] = Node(PathEmbedTokens, Some(ClsEmbedding))

\* the nodes ensure_parents added
Synthesized == DOMAIN all_nodes \ DOMAIN explicit

\* C8 (amended): on the fixture report the parser extracts exactly the 3
\* explicit nodes and ensure_parents adds five unlabeled ancestors: visual,
\* visual.blocks, visual.blocks.0, visual.blocks.0.attn and language.
C8_FixtureFiveAncestors ==
    FixtureBuilt =>
        /\ FixtureExplicit
        /\ Synthesized = {PathVisual, PathVisualBlocks, PathVisualBlocks0,
                          PathVisualBlocks0Attn, PathLanguage}
        /\ Cardinality(Synthesized) = 5
        /\ \A p \in Synthesized : all_nodes[p] = Node(p, None)
        /\ \A p \in DOMAIN explicit : all_nodes[p] = explicit[p]

\* ensure_parents has just run on the parse result of the fixture
C8_Witness == lines = FixtureReport /\ pc = "ensured" /\ Cardinality(DOMAIN explicit) = 3

\* C8 as stated: four ancestors, visual.blocks not among them
C8_AsStated ==
    FixtureBuilt =>
        /\ Cardinality(DOMAIN explicit) = 3
        /\ Synthesized = {PathVisual, PathVisualBlocks0Attn, PathVisualBlocks0, PathLanguage}
        /\ Cardinality(Synthesized) = 4

\* identifiers of the declared nodes, the root included
DiagramIds == {mermaid_id_for_path(p) : p \in DOMAIN nodes} \cup {root_id}

\* the diagram has an edge from identifier x to identifier y
HasEdge(x, y) == \E i \in DOMAIN mermaid : mermaid[i] = EdgeLine(x, y) \/ mermaid[i] = ChainLine(x, y)

\* the identifiers reachable from those of S along the edges
RECURSIVE ReachableFrom(_)
ReachableFrom(S) ==
    LET T == S \cup {y \in DiagramIds : \E x \in S : HasEdge(x, y)}
    IN  IF T = S THEN S ELSE ReachableFrom(T)

\* s contains t as a substring
Contains(s, t) == \E k \in 0..(Len(s) - Len(t)) : SubSeq(s, k + 1, k + Len(t)) = t

\* the diagram has a declaration line for identifier x
IsDeclared(x) == \E i \in DOMAIN mermaid : StartsWith(mermaid[i], Indent2 \o x \o <<"[">>)

\* C9: for max_depth >= 1 every node of the filtered set is reachable from
\* the root Model along the emitted edges, and every emitted edge joins two
\* declared nodes.
C9_Connected ==
    (Generated /\ max_depth >= 1) =>
        /\ \A p \in DOMAIN nodes : mermaid_id_for_path(p) \in ReachableFrom({root_id})
        /\ \A i \in DOMAIN mermaid :
               (Contains(mermaid[i], Arrow) /\ ~IsDeclaration(mermaid[i])) =>
                   \E x, y \in DiagramIds :
                       /\ mermaid[i] = EdgeLine(x, y) \/ mermaid[i] = ChainLine(x, y)
                       /\ IsDeclared(x)
                       /\ IsDeclared(y)

\* a diagram with a fan-out edge and a stack of at least two chained leaves
C9_Witness ==
    /\ Generated
    /\ max_depth >= 2
    /\ \E p \in DOMAIN nodes : Len(LeafStackOf(p)) >= 2
    /\ \E p \in DOMAIN nodes : \E c \in ChildrenOf(p) : SegmentCount(c) < max_depth

\* C10 as stated: distinct node paths get distinct identifiers, none of them
\* the root identifier Model, so no two declarations share an identifier.
C10_UniqueIds ==
    Generated =>
        /\ \A p, q \in DOMAIN nodes : p # q => mermaid_id_for_path(p) # mermaid_id_for_path(q)
        /\ \A p \in DOMAIN nodes : mermaid_id_for_path(p) # root_id
        /\ \A i, j \in DOMAIN mermaid :
               (i # j /\ IsDeclaration(mermaid[i]) /\ IsDeclaration(mermaid[j])) =>
                   \A k \in DOMAIN mermaid[i] :
                       mermaid[i][k] = "[" => ~StartsWith(mermaid[j], SubSeq(mermaid[i], 1, k))

====
